---- MODULE Spec2Model ----
(***************************************************************************)
(* Model of user_main.c: an ESP8266 (NON-OS SDK) configured as soft AP     *)
(* that blinks the LED on GPIO2 once a station has connected.  The SoC     *)
(* runs the registered callbacks one after another: user_init, then        *)
(* init_done_callback, then wifi_event_handler_callback per WiFi event and *)
(* timer_function per expiry of the_timer.                                 *)
(* Time is counted in microseconds.  Bytes are numbers 0..255,             *)
(* C strings are sequences of bytes.                                       *)
(***************************************************************************)
EXTENDS Integers, Sequences, FiniteSets

\* ------------------------------------------------------------------ bounds
\* number of GPIO output bits modelled (bits 0 .. RegWidth-1)
RegWidth == 3
\* largest number of WiFi events the SoC delivers in one run
MaxEvents == 2
\* the SoC's idle time advances in slices of at most TimeStep microseconds
TimeStep == 700000
\* idle time stops advancing at MaxTime microseconds
MaxTime == 3100000

\* ------------------------------------------------------- program constants
BIT2 == 4
SSID_LEN == 7
SSID_SIZE == 32
PASSWORD_SIZE == 64
PASSWORD_LEN == 10
TIMER_MS == 1000
DELAY_US == 100
UsPerMs == 1000

EVENT_SOFTAPMODE_STACONNECTED == "EVENT_SOFTAPMODE_STACONNECTED"
EVENT_SOFTAPMODE_STADISCONNECTED == "EVENT_SOFTAPMODE_STADISCONNECTED"
EVENT_SOFTAPMODE_PROBEREQRECVED == "EVENT_SOFTAPMODE_PROBEREQRECVED"

\* the tags event->event can carry
Events ==
    { EVENT_SOFTAPMODE_STACONNECTED,
      EVENT_SOFTAPMODE_STADISCONNECTED,
      EVENT_SOFTAPMODE_PROBEREQRECVED }

VARIABLES
    pc,             \* "reset", "starting" (user_init done), "running" (init done)
    running,        \* the callback the SoC is executing, or "none"
    now,            \* microseconds since the SoC completed its setup
    gpio_out,       \* GPIO_OUT register
    gpio_enable,    \* GPIO_ENABLE register
    tf_read,        \* timer_function: the value read from GPIO_OUT_ADDRESS
    init_done_cb,   \* callback registered with system_init_done_cb
    wifi_event_cb,  \* callback registered with wifi_set_event_handler_cb
    the_timer,      \* os_timer_t the_timer
    timer_list,     \* the SoC's list of armed timers: expiry times of the_timer
    softap_config,  \* the soft-AP configuration held by the WiFi stack
    WIFI_SSID,      \* credentials.h
    WIFI_PASSWORD,  \* credentials.h
    nevents,        \* WiFi events delivered so far
    trace           \* history: callbacks entered and SDK calls made

vars ==
    << pc, running, now, gpio_out, gpio_enable, tf_read, init_done_cb,
       wifi_event_cb, the_timer, timer_list, softap_config, WIFI_SSID,
       WIFI_PASSWORD, nevents, trace >>

\* ------------------------------------------------------------- bit helpers
Bit(x, b) == (x \div (2 ^ b)) % 2

RECURSIVE OrBits(_, _, _)
OrBits(x, y, n) ==
    IF n = 0 THEN 0
    ELSE OrBits(x, y, n - 1)
         + (2 ^ (n - 1)) * (IF Bit(x, n - 1) = 1 \/ Bit(y, n - 1) = 1 THEN 1 ELSE 0)

RECURSIVE AndBits(_, _, _)
AndBits(x, y, n) ==
    IF n = 0 THEN 0
    ELSE AndBits(x, y, n - 1)
         + (2 ^ (n - 1)) * (IF Bit(x, n - 1) = 1 /\ Bit(y, n - 1) = 1 THEN 1 ELSE 0)

RECURSIVE AndNotBits(_, _, _)
AndNotBits(x, y, n) ==
    IF n = 0 THEN 0
    ELSE AndNotBits(x, y, n - 1)
         + (2 ^ (n - 1)) * (IF Bit(x, n - 1) = 1 /\ Bit(y, n - 1) = 0 THEN 1 ELSE 0)

\* mask clipped to the modelled register width
Reg(x) == x % (2 ^ RegWidth)

\* slip: the set mask and the clear mask are taken for one another
gpio_output_set_swapped(out, enable, set_mask, clear_mask, enable_mask, disable_mask) ==
    [ out    |-> AndNotBits(OrBits(out, Reg(clear_mask), RegWidth),
                            Reg(set_mask), RegWidth),
      enable |-> AndNotBits(OrBits(enable, Reg(enable_mask), RegWidth),
                            Reg(disable_mask), RegWidth) ]

\* gpio_output_set(set_mask, clear_mask, enable_mask, disable_mask): the
\* write-1-to-set and write-1-to-clear registers of the output and of the
\* output-enable latch
gpio_output_set(out, enable, set_mask, clear_mask, enable_mask, disable_mask) ==
    [ out    |-> AndNotBits(OrBits(out, Reg(set_mask), RegWidth),
                            Reg(clear_mask), RegWidth),
      enable |-> AndNotBits(OrBits(enable, Reg(enable_mask), RegWidth),
                            Reg(disable_mask), RegWidth) ]

\* GPIO_REG_READ(GPIO_OUT_ADDRESS) & BIT2
ReadBit2(reg) == AndBits(reg, BIT2, RegWidth)

\* ---------------------------------------------------------- byte helpers
Zeros(n) == [i \in 1..n |-> 0]

\* slip: the buffer is not cleared
os_bzero_skipped(buf, n) == buf

\* os_bzero(buf, n)
os_bzero(buf, n) == [i \in 1..Len(buf) |-> IF i <= n THEN 0 ELSE buf[i]]

\* slip: one byte too many is copied
os_memcpy_one_more(dst, src, n) ==
    [i \in 1..Len(dst) |-> IF i <= n + 1 THEN src[i] ELSE dst[i]]

\* os_memcpy(dst, src, n); src is the memory starting at the source pointer
os_memcpy(dst, src, n) == [i \in 1..Len(dst) |-> IF i <= n THEN src[i] ELSE dst[i]]

\* the memory at a string literal: its characters, the terminating NUL, and
\* whatever the linker placed behind it (tail)
CString(s, tail) == s \o <<0>> \o tail

Min(S) == CHOOSE x \in S : \A y \in S : x <= y

\* --------------------------------------------------------------- inputs
\* "ESPDEMO", "MYESPAP" (7 characters), "ESP" (shorter), "ESPWHATEVER" (longer)
SsidInputs ==
    { <<69, 83, 80, 68, 69, 77, 79>>,
      <<77, 89, 69, 83, 80, 65, 80>>,
      <<69, 83, 80>>,
      <<69, 83, 80, 87, 72, 65, 84, 69, 86, 69, 82>> }

\* "0123456789" (10 characters), "secret" (shorter)
PasswordInputs ==
    { <<48, 49, 50, 51, 52, 53, 54, 55, 56, 57>>,
      <<115, 101, 99, 114, 101, 116>> }

\* bytes found behind a string literal in .rodata
RodataTails ==
    { Zeros(PASSWORD_LEN),
      [i \in 1..PASSWORD_LEN |-> 36 + i] }

\* soft-AP configurations the stack may hold from a previous run
PriorConfigs ==
    { [ ssid |-> Zeros(SSID_SIZE), password |-> Zeros(PASSWORD_SIZE),
        ssid_len |-> 0, authmode |-> "AUTH_OPEN", channel |-> 1 ],
      [ ssid |-> [i \in 1..SSID_SIZE |-> 88],
        password |-> [i \in 1..PASSWORD_SIZE |-> 112],
        ssid_len |-> SSID_SIZE, authmode |-> "AUTH_WPA_PSK", channel |-> 6 ] }

\* values of GPIO_OUT at reset: every output latch clear, or every one set
GpioOutInputs == { 0, (2 ^ RegWidth) - 1 }

\* a history entry: the callback entered or SDK call made, its argument, the
\* time, whether the_timer was armed and the level of GPIO2 at that moment
Entry(op, arg, t, list, out) ==
    [op |-> op, arg |-> arg, t |-> t, armed |-> list # <<>>, level |-> Bit(out, 2)]

\* an entry made in the current state
Here(op, arg) == Entry(op, arg, now, timer_list, gpio_out)

Init ==
    /\ pc = "reset"
    /\ running = "none"
    /\ now = 0
    /\ gpio_out \in GpioOutInputs
    /\ gpio_enable = 0
    /\ tf_read = 0
    /\ init_done_cb = "NULL"
    /\ wifi_event_cb = "NULL"
    /\ the_timer = [timer_func |-> "NULL", timer_period |-> 0, repeat |-> FALSE]
    /\ timer_list = <<>>
    /\ softap_config \in PriorConfigs
    /\ WIFI_SSID \in SsidInputs
    /\ WIFI_PASSWORD \in PasswordInputs
    /\ nevents = 0
    /\ trace = <<>>

\* ------------------------------------------------------------- the SoC
\* no OS and no task scheduler: the SoC starts a callback only when no
\* other callback is executing
\* slip: callbacks may preempt one another
IdleOrPreempting == TRUE

Idle == running = "none"

\* ------------------------------------------------------------ user_init
\* slip: the WiFi event handler is registered from user_init already
user_init_registers_handler ==
    /\ pc = "reset"
    /\ running = "none"
    /\ LET g == gpio_output_set(gpio_out, gpio_enable, 0, BIT2, BIT2, 0)
       IN  /\ gpio_out' = g.out
           /\ gpio_enable' = g.enable
    /\ init_done_cb' = "init_done_callback"
    /\ wifi_event_cb' = "wifi_event_handler_callback"
    /\ pc' = "starting"
    /\ trace' = trace \o << Here("user_init", ""),
                            Entry("system_init_done_cb", "init_done_callback", now,
                                  timer_list, gpio_out'),
                            Entry("wifi_set_event_handler_cb",
                                  "wifi_event_handler_callback", now,
                                  timer_list, gpio_out') >>
    /\ UNCHANGED << running, now, tf_read, the_timer, timer_list,
                    softap_config, WIFI_SSID, WIFI_PASSWORD, nevents >>

user_init ==
    /\ pc = "reset"
    /\ Idle
    /\ LET g == gpio_output_set(gpio_out, gpio_enable, 0, BIT2, BIT2, 0)
       IN  /\ gpio_out' = g.out
           /\ gpio_enable' = g.enable
    /\ init_done_cb' = "init_done_callback"
    /\ pc' = "starting"
    /\ trace' = trace \o << Here("user_init", ""),
                            Entry("system_init_done_cb", "init_done_callback", now,
                                  timer_list, gpio_out') >>
    /\ UNCHANGED << running, now, tf_read, wifi_event_cb, the_timer, timer_list,
                    softap_config, WIFI_SSID, WIFI_PASSWORD, nevents >>

\* --------------------------------------------------- init_done_callback
\* slip: the password buffer is cleared with the size of the ssid buffer
ApplyCredentialsShortClear(config, SSID, PASSWORD) ==
    [ config EXCEPT
        !.ssid_len = SSID_LEN,
        !.ssid = os_memcpy(os_bzero(@, SSID_SIZE), SSID, SSID_LEN),
        !.password = os_memcpy(os_bzero(@, SSID_SIZE), PASSWORD, PASSWORD_LEN),
        !.authmode = "AUTH_WPA2_PSK" ]

\* lines 127-132: the fields written into the local config
ApplyCredentials(config, SSID, PASSWORD) ==
    [ config EXCEPT
        !.ssid_len = SSID_LEN,
        !.ssid = os_memcpy(os_bzero(@, SSID_SIZE), SSID, SSID_LEN),
        !.password = os_memcpy(os_bzero(@, PASSWORD_SIZE), PASSWORD, PASSWORD_LEN),
        !.authmode = "AUTH_WPA2_PSK" ]

\* slip: the event handler is registered before the configuration is set
init_done_callback_registers_first ==
    /\ pc = "starting"
    /\ running = "none"
    /\ init_done_cb = "init_done_callback"
    /\ \E stail \in RodataTails, ptail \in RodataTails :
         softap_config' = ApplyCredentials(softap_config, CString(WIFI_SSID, stail),
                                           CString(WIFI_PASSWORD, ptail))
    /\ wifi_event_cb' = "wifi_event_handler_callback"
    /\ pc' = "running"
    /\ trace' = trace \o
         << Here("init_done_callback", ""),
            Here("wifi_set_event_handler_cb", "wifi_event_handler_callback"),
            Here("wifi_softap_get_config", ""),
            Here("wifi_softap_set_config", "") >>
    /\ UNCHANGED << running, now, gpio_out, gpio_enable, tf_read, init_done_cb,
                    the_timer, timer_list, WIFI_SSID, WIFI_PASSWORD, nevents >>

init_done_callback ==
    /\ pc = "starting"
    /\ Idle
    /\ init_done_cb = "init_done_callback"
    /\ \E stail \in RodataTails, ptail \in RodataTails :
         LET SSID == CString(WIFI_SSID, stail)
             PASSWORD == CString(WIFI_PASSWORD, ptail)
             config == softap_config
         IN  softap_config' = ApplyCredentials(config, SSID, PASSWORD)
    /\ wifi_event_cb' = "wifi_event_handler_callback"
    /\ pc' = "running"
    /\ trace' = trace \o
         << Here("init_done_callback", ""),
            Here("wifi_softap_get_config", ""),
            Here("wifi_softap_set_config", ""),
            Here("wifi_set_event_handler_cb", "wifi_event_handler_callback") >>
    /\ UNCHANGED << running, now, gpio_out, gpio_enable, tf_read, init_done_cb,
                    the_timer, timer_list, WIFI_SSID, WIFI_PASSWORD, nevents >>

\* ------------------------------------------------ the software timer API
\* slip: the disarm is left out
os_timer_disarm_skipped(list) == list

\* os_timer_disarm(&the_timer): the handle leaves the list of armed timers
os_timer_disarm(list) == <<>>

\* slip: the callback is never bound to the handle
os_timer_setfn_skipped(timer, fn) == timer

\* os_timer_setfn(&the_timer, fn, NULL)
os_timer_setfn(timer, fn) == [timer EXCEPT !.timer_func = fn]

\* slip: the timer is armed as a one-shot timer
TimerArmedOnce(timer, ms, repeat) ==
    [timer EXCEPT !.timer_period = ms, !.repeat = FALSE]

\* os_timer_arm(&the_timer, ms, repeat): the handle's period and repeat flag
TimerArmed(timer, ms, repeat) ==
    [timer EXCEPT !.timer_period = ms, !.repeat = repeat]

\* os_timer_arm(&the_timer, ms, repeat): the handle is linked into the list
\* of armed timers, due ms milliseconds from time t
ListArmed(list, ms, t) == Append(list, t + ms * UsPerMs)

\* ------------------------------------------ wifi_event_handler_callback
\* slip: no switch, every event starts the timer
IsAnyEvent(event) == event \in Events

\* slip: the disconnect case falls through into the connect case
IsConnectOrDisconnect(event) ==
    event \in {EVENT_SOFTAPMODE_STACONNECTED, EVENT_SOFTAPMODE_STADISCONNECTED}

\* switch (event->event) { case EVENT_SOFTAPMODE_STACONNECTED: ...
IsConnect(event) == event = EVENT_SOFTAPMODE_STACONNECTED

\* slip: a disconnect stops the blinking
HandleEventStopping(event, timer, list, t, out) ==
    IF event = EVENT_SOFTAPMODE_STACONNECTED
    THEN LET disarmed == os_timer_disarm(list)
             bound == os_timer_setfn(timer, "timer_function")
         IN  [ timer |-> TimerArmed(bound, TIMER_MS, TRUE),
               list  |-> ListArmed(disarmed, TIMER_MS, t),
               calls |-> << Entry("os_timer_disarm", "", t, list, out),
                            Entry("os_timer_setfn", "timer_function", t, disarmed, out),
                            Entry("os_timer_arm", "", t, disarmed, out) >> ]
    ELSE IF event = EVENT_SOFTAPMODE_STADISCONNECTED
    THEN [ timer |-> timer, list |-> os_timer_disarm(list),
           calls |-> << Entry("os_timer_disarm", "", t, list, out) >> ]
    ELSE [ timer |-> timer, list |-> list, calls |-> <<>> ]

\* slip: a timer that is already armed is left running as it is
HandleEventKeepsRunning(event, timer, list, t, out) ==
    IF event = EVENT_SOFTAPMODE_STACONNECTED /\ list = <<>>
    THEN LET bound == os_timer_setfn(timer, "timer_function")
         IN  [ timer |-> TimerArmed(bound, TIMER_MS, TRUE),
               list  |-> ListArmed(list, TIMER_MS, t),
               calls |-> << Entry("os_timer_disarm", "", t, list, out),
                            Entry("os_timer_setfn", "timer_function", t, list, out),
                            Entry("os_timer_arm", "", t, list, out) >> ]
    ELSE [ timer |-> timer, list |-> list, calls |-> <<>> ]

\* the body of the switch: the timer handle, the list of armed timers and
\* the SDK calls made, for an event handled at time t with GPIO_OUT = out
HandleEvent(event, timer, list, t, out) ==
    IF IsConnect(event)
    THEN LET disarmed == os_timer_disarm(list)
             bound == os_timer_setfn(timer, "timer_function")
         IN  [ timer |-> TimerArmed(bound, TIMER_MS, TRUE),
               list  |-> ListArmed(disarmed, TIMER_MS, t),
               calls |-> << Entry("os_timer_disarm", "", t, list, out),
                            Entry("os_timer_setfn", "timer_function", t, disarmed, out),
                            Entry("os_timer_arm", "", t, disarmed, out) >> ]
    ELSE [ timer |-> timer, list |-> list, calls |-> <<>> ]

\* slip: a connect event restarts the blinking from LOW
wifi_event_handler_callback_resets_led(event) ==
    /\ running = "none"
    /\ wifi_event_cb = "wifi_event_handler_callback"
    /\ nevents < MaxEvents
    /\ nevents' = nevents + 1
    /\ LET h == HandleEvent(event, the_timer, timer_list, now, gpio_out)
       IN  /\ the_timer' = h.timer
           /\ timer_list' = h.list
           /\ trace' = Append(trace, Here("wifi_event_handler_callback", event)) \o h.calls
    /\ gpio_out' = IF IsConnect(event)
                   THEN gpio_output_set(gpio_out, gpio_enable, 0, BIT2, BIT2, 0).out
                   ELSE gpio_out
    /\ now' = now + DELAY_US
    /\ UNCHANGED << pc, running, gpio_enable, tf_read, init_done_cb,
                    wifi_event_cb, softap_config, WIFI_SSID, WIFI_PASSWORD >>

wifi_event_handler_callback(event) ==
    /\ Idle
    /\ wifi_event_cb = "wifi_event_handler_callback"
    /\ nevents < MaxEvents
    /\ nevents' = nevents + 1
    /\ LET h == HandleEvent(event, the_timer, timer_list, now, gpio_out)
       IN  /\ the_timer' = h.timer
           /\ timer_list' = h.list
           /\ trace' = Append(trace, Here("wifi_event_handler_callback", event)) \o h.calls
    /\ now' = now + DELAY_US
    /\ UNCHANGED << pc, running, gpio_out, gpio_enable, tf_read, init_done_cb,
                    wifi_event_cb, softap_config, WIFI_SSID, WIFI_PASSWORD >>

WifiEvent == \E event \in Events : wifi_event_handler_callback(event)

\* ------------------------------------------------------- timer_function
\* the SoC finds an entry of the_timer due, re-links a repeating timer one
\* period ahead and enters timer_function, which reads GPIO_OUT
timer_function_read ==
    /\ Idle
    /\ the_timer.timer_func = "timer_function"
    /\ \E i \in 1..Len(timer_list) :
         /\ timer_list[i] <= now
         /\ timer_list' =
              IF the_timer.repeat
              THEN [timer_list EXCEPT ![i] = now + the_timer.timer_period * UsPerMs]
              ELSE SubSeq(timer_list, 1, i - 1) \o SubSeq(timer_list, i + 1, Len(timer_list))
    /\ tf_read' = gpio_out
    /\ running' = "timer_function"
    /\ trace' = Append(trace, Here("timer_function", ""))
    /\ UNCHANGED << pc, now, gpio_out, gpio_enable, init_done_cb, wifi_event_cb,
                    the_timer, softap_config, WIFI_SSID, WIFI_PASSWORD, nevents >>

\* the rest of timer_function: the write opposite to the level read, the
\* delay, and the return to the SoC
\* slip: both branches drive the pin HIGH
ToggleStuck(read, out, enable) ==
    gpio_output_set(out, enable, BIT2, 0, BIT2, 0)

\* slip: the whole output register is written instead of the one bit
ToggleWholeRegister(read, out, enable) ==
    [ out    |-> IF ReadBit2(read) # 0 THEN 0 ELSE BIT2,
      enable |-> OrBits(enable, BIT2, RegWidth) ]

\* if (GPIO_REG_READ(GPIO_OUT_ADDRESS) & BIT2) ... else ...
Toggle(read, out, enable) ==
    IF ReadBit2(read) # 0
    THEN gpio_output_set(out, enable, 0, BIT2, BIT2, 0)
    ELSE gpio_output_set(out, enable, BIT2, 0, BIT2, 0)

timer_function_write ==
    /\ running = "timer_function"
    /\ LET g == Toggle(tf_read, gpio_out, gpio_enable)
       IN  /\ gpio_out' = g.out
           /\ gpio_enable' = g.enable
    /\ now' = now + DELAY_US
    /\ running' = "none"
    /\ UNCHANGED << pc, tf_read, init_done_cb, wifi_event_cb, the_timer, timer_list,
                    softap_config, WIFI_SSID, WIFI_PASSWORD, nevents, trace >>

\* ------------------------------------------------------------ idle time
\* once set up, the SoC idles until the next timer is due, at most TimeStep
\* at a time; a timer that is due is served before more idle time passes
Advance ==
    /\ Idle
    /\ pc = "running"
    /\ now < MaxTime
    /\ \A i \in 1..Len(timer_list) : timer_list[i] > now
    /\ now' = Min({now + TimeStep, MaxTime} \cup {timer_list[i] : i \in 1..Len(timer_list)})
    /\ UNCHANGED << pc, running, gpio_out, gpio_enable, tf_read, init_done_cb,
                    wifi_event_cb, the_timer, timer_list, softap_config, WIFI_SSID,
                    WIFI_PASSWORD, nevents, trace >>

Next ==
    \/ user_init
    \/ init_done_callback
    \/ WifiEvent
    \/ timer_function_read
    \/ timer_function_write
    \/ Advance

Spec == Init /\ [][Next]_vars

\* ------------------------------------------- the program run without end
\* The same callbacks with no bound on the number of wifi events and on time.
\* Time is kept relative: now stays 0 and timer_list holds the time left until
\* each expiry (0 once due).  The history is no longer extended, and nevents
\* counts the wifi events delivered since the SoC last idled or served the
\* timer: at most MaxEvents are delivered back to back.

\* the time left on each armed timer after d microseconds have passed
Elapse(list, d) == [i \in 1..Len(list) |-> IF list[i] > d THEN list[i] - d ELSE 0]

LiveWifiEvent(event) ==
        /\ Idle
        /\ wifi_event_cb = "wifi_event_handler_callback"
        /\ nevents < MaxEvents
        /\ nevents' = nevents + 1
        /\ LET h == HandleEvent(event, the_timer, timer_list, now, gpio_out)
           IN  /\ the_timer' = h.timer
               /\ timer_list' = Elapse(h.list, DELAY_US)
        /\ UNCHANGED << pc, running, now, gpio_out, gpio_enable, tf_read, init_done_cb,
                        wifi_event_cb, softap_config, WIFI_SSID, WIFI_PASSWORD, trace >>

LiveConnect == LiveWifiEvent(EVENT_SOFTAPMODE_STACONNECTED)

LiveOtherEvent ==
    \E event \in Events \ {EVENT_SOFTAPMODE_STACONNECTED} : LiveWifiEvent(event)

LiveTimerRead ==
    /\ Idle
    /\ the_timer.timer_func = "timer_function"
    /\ \E i \in 1..Len(timer_list) :
         /\ timer_list[i] <= now
         /\ timer_list' =
              IF the_timer.repeat
              THEN [timer_list EXCEPT ![i] = now + the_timer.timer_period * UsPerMs]
              ELSE SubSeq(timer_list, 1, i - 1) \o SubSeq(timer_list, i + 1, Len(timer_list))
    /\ tf_read' = gpio_out
    /\ running' = "timer_function"
    /\ nevents' = 0
    /\ UNCHANGED << pc, now, gpio_out, gpio_enable, init_done_cb, wifi_event_cb,
                    the_timer, softap_config, WIFI_SSID, WIFI_PASSWORD, trace >>

LiveTimerWrite ==
    /\ running = "timer_function"
    /\ LET g == Toggle(tf_read, gpio_out, gpio_enable)
       IN  /\ gpio_out' = g.out
           /\ gpio_enable' = g.enable
    /\ timer_list' = Elapse(timer_list, DELAY_US)
    /\ running' = "none"
    /\ UNCHANGED << pc, now, tf_read, init_done_cb, wifi_event_cb, the_timer,
                    softap_config, WIFI_SSID, WIFI_PASSWORD, nevents, trace >>

LiveAdvance ==
    /\ Idle
    /\ pc = "running"
    /\ timer_list # <<>>
    /\ \A i \in 1..Len(timer_list) : timer_list[i] > now
    /\ timer_list' =
         Elapse(timer_list,
                Min({TimeStep} \cup {timer_list[i] : i \in 1..Len(timer_list)}))
    /\ nevents' = 0
    /\ UNCHANGED << pc, running, now, gpio_out, gpio_enable, tf_read, init_done_cb,
                    wifi_event_cb, the_timer, softap_config, WIFI_SSID,
                    WIFI_PASSWORD, trace >>

LiveNext ==
    \/ user_init
    \/ init_done_callback
    \/ LiveConnect
    \/ LiveOtherEvent
    \/ LiveTimerRead
    \/ LiveTimerWrite
    \/ LiveAdvance

\* the SoC serves a timer that is due, lets a callback that has been entered
\* run to its end, and time passes
LiveSpec ==
    /\ Init
    /\ [][LiveNext]_vars
    /\ WF_vars(LiveTimerRead)
    /\ WF_vars(LiveTimerWrite)
    /\ WF_vars(LiveAdvance)

\* ------------------------------------------------------------ vocabulary
Armed == timer_list # <<>>
Level == Bit(gpio_out, 2)
Period == TIMER_MS * UsPerMs

Idx == 1..Len(trace)
\* entries of the history: invocations of timer_function
Ticks == {i \in Idx : trace[i].op = "timer_function"}
\* invocations of wifi_event_handler_callback
Handled == {i \in Idx : trace[i].op = "wifi_event_handler_callback"}
\* ... with tag EVENT_SOFTAPMODE_STACONNECTED
Connects == {i \in Handled : trace[i].arg = EVENT_SOFTAPMODE_STACONNECTED}
OtherEvents == Handled \ Connects
Arms == {i \in Idx : trace[i].op = "os_timer_arm"}
Disarms == {i \in Idx : trace[i].op = "os_timer_disarm"}
NTicks == Cardinality(Ticks)
Xor(a, b) == (a + b) % 2

\* ---------------------------------------------------------------- claims

\* C1: the timer never fires before a STATION_CONNECTED event has been
\* handled: every invocation of timer_function comes after the handling of a
\* wifi event with tag EVENT_SOFTAPMODE_STACONNECTED.
C1_NoTickBeforeConnect ==
    /\ \A j \in Ticks : \E i \in Connects : i < j
    /\ running = "timer_function" => Connects # {}

\* a tick has happened, and a non-connect event was handled before the first
\* connect event
C1_Witness ==
    /\ Ticks # {}
    /\ \E o \in OtherEvents : \A c \in Connects : o < c

\* C2: after K >= 1 connect events exactly one timer is active: the_timer is
\* linked once into the list of armed timers, and over any interval that
\* starts at an arm or a tick and contains no further arm, n ticks take at
\* least n periods of 1000 ms.
C2_OneTimer ==
    /\ Connects # {} => Len(timer_list) = 1
    /\ \A i \in Arms \cup Ticks : \A j \in Ticks :
         (i < j /\ \A k \in Arms : ~(i < k /\ k < j))
         => trace[j].t - trace[i].t >= Period * Cardinality({k \in Ticks : i < k /\ k <= j})

\* two connect events in a row, and two ticks after the second one
C2_Witness ==
    /\ \E c \in Connects :
         /\ \E d \in Connects : d < c /\ \A h \in Handled : ~(d < h /\ h < c)
         /\ Cardinality({k \in Ticks : k > c}) >= 2
    /\ Idle

\* C3: the_timer is never armed while it is already armed: at every
\* os_timer_arm the handle is not in the list of armed timers, and the arm
\* is preceded by an os_timer_disarm with no other arm in between.
C3_NoDoubleArm ==
    /\ \A j \in Arms :
         /\ ~trace[j].armed
         /\ \E i \in Disarms : i < j /\ \A k \in Arms : ~(i < k /\ k < j)
    /\ Len(timer_list) <= 1

\* a re-arm: the timer was armed when a connect event's disarm was made
C3_Witness ==
    /\ Cardinality(Arms) >= 2
    /\ \E i \in Disarms : trace[i].armed

\* C4: after N ticks from GPIO2 level L0 the level is L0 XOR (N mod 2),
\* whatever wifi events are handled in between: taken from the entry of any
\* tick (L0 the level it found), and taken from user_init (L0 = LOW); one
\* connect event and 3 ticks from LOW end at HIGH.
C4_LevelParity ==
    /\ \A i \in Ticks :
         /\ \A j \in Ticks :
              i <= j => trace[j].level =
                          Xor(trace[i].level, Cardinality({k \in Ticks : i <= k /\ k < j}))
         /\ Idle => Level = Xor(trace[i].level, Cardinality({k \in Ticks : i <= k}))
    /\ (Idle /\ pc # "reset") => Level = Xor(0, NTicks)
    /\ (Idle /\ Cardinality(Connects) = 1 /\ NTicks = 3) => Level = 1

\* one connect event, three completed ticks, with another wifi event handled
\* between the ticks; ticks have started from LOW and from HIGH
C4_Witness ==
    /\ Idle
    /\ Cardinality(Connects) = 1
    /\ NTicks = 3
    /\ \E o \in OtherEvents : \E i, j \in Ticks : i < o /\ o < j
    /\ \E i, j \in Ticks : trace[i].level = 0 /\ trace[j].level = 1

\* C5: handling a wifi event whose tag is not EVENT_SOFTAPMODE_STACONNECTED
\* leaves the timer's armed state, interval, repeat flag and callback and the
\* GPIO output unchanged.
C5_NonConnectFrame ==
    [][ ( /\ Len(trace') > Len(trace)
          /\ trace'[Len(trace) + 1].op = "wifi_event_handler_callback"
          /\ trace'[Len(trace) + 1].arg # EVENT_SOFTAPMODE_STACONNECTED )
        => UNCHANGED << the_timer, timer_list, gpio_out, gpio_enable >> ]_vars

\* a disconnect event has been handled while the timer was armed and the
\* LED was on
C5_Witness ==
    \E o \in OtherEvents :
        /\ trace[o].arg = EVENT_SOFTAPMODE_STADISCONNECTED
        /\ trace[o].armed
        /\ trace[o].level = 1

\* C6: the Init Gate completes before any wireless event callback fires:
\* wifi_event_handler_callback is invoked only after init_done_callback has
\* run to its end, where alone the handler is registered; none is invoked
\* during or right after user_init.
C6_InitBeforeEvents ==
    /\ \A j \in Handled :
         \E i \in Idx :
             /\ i < j
             /\ trace[i].op = "wifi_set_event_handler_cb"
             /\ \E g \in Idx : g < i /\ trace[g].op = "init_done_callback"
    /\ Handled # {} => pc = "running"
    /\ pc # "running" => wifi_event_cb = "NULL"

\* a wifi event has been handled
C6_Witness ==
    /\ Handled # {}
    /\ pc = "running"

\* C7: once the timer is armed it is armed in every later state, whatever
\* wifi events (connect, disconnect, others) and ticks follow: no step leads
\* from Armed back to Idle.
C7_StaysArmed == [][Armed => Armed']_vars

\* the timer is armed, and since the arm a disconnect event has been handled
\* and a tick has followed it
C7_Witness ==
    /\ Armed
    /\ Idle
    /\ \E a \in Arms : \E o \in OtherEvents : \E k \in Ticks :
         /\ a < o
         /\ o < k
         /\ trace[o].arg = EVENT_SOFTAPMODE_STADISCONNECTED

\* C8 as stated: no os_timer_disarm is performed on the_timer after the first
\* os_timer_arm.
C8_NoDisarmAfterArm ==
    \A i \in Arms : \A j \in Disarms : j < i

\* C8 amended: after the first arm, os_timer_disarm is performed only as the
\* first call of handling a further STATION_CONNECTED event, the same handler
\* arms the timer again, and so the timer is armed whenever a callback has
\* returned.
C8_DisarmOnlyToRearm ==
    /\ \A j \in Disarms :
         /\ j - 1 \in Connects
         /\ j + 2 \in Arms
         /\ trace[j + 2].t = trace[j].t
    /\ Arms # {} => Armed

\* the timer was disarmed while armed, and is armed
C8_Witness ==
    /\ \E i \in Arms : \E j \in Disarms : i < j /\ trace[j].armed
    /\ Armed
    /\ Idle

\* C9: a tick's read of GPIO_OUT and its write are not interleaved with any
\* other callback: while timer_function is between the two, no other
\* callback has been entered and GPIO_OUT still holds the value read; no
\* toggle is lost or doubled, every completed tick has changed the level.
C9_TickAtomic ==
    /\ running = "timer_function" =>
         /\ trace[Len(trace)].op = "timer_function"
         /\ gpio_out = tf_read
         /\ Level = Xor(0, NTicks - 1)
    /\ (Idle /\ pc # "reset") => Level = NTicks % 2

\* a tick is between its read and its write, after an earlier tick, while
\* the SoC has a further wifi event to deliver
C9_Witness ==
    /\ running = "timer_function"
    /\ nevents < MaxEvents
    /\ NTicks >= 2

\* C10: when the SSID string has exactly ssid_len (7) characters, the
\* configuration committed by init_done_callback carries it exactly: the
\* first ssid_len bytes of config.ssid are the string, ssid_len is its
\* length, all remaining bytes of the 32-byte buffer are zero.
C10_SsidExact ==
    (pc = "running" /\ Len(WIFI_SSID) = SSID_LEN) =>
        /\ softap_config.ssid_len = Len(WIFI_SSID)
        /\ Len(softap_config.ssid) = SSID_SIZE
        /\ SubSeq(softap_config.ssid, 1, softap_config.ssid_len) = WIFI_SSID
        /\ \A i \in (softap_config.ssid_len + 1)..SSID_SIZE : softap_config.ssid[i] = 0

\* a 7-character SSID has been committed over a previous configuration whose
\* ssid buffer was full of other bytes
C10_Witness ==
    /\ pc = "running"
    /\ Len(WIFI_SSID) = SSID_LEN
    /\ softap_config.channel = 6
\* C11 as stated: when the length of the SSID string differs from ssid_len,
\* the broadcast SSID is the first ssid_len bytes of the string padded with
\* zeros, for a string longer and for a string shorter than ssid_len.
C11_ZeroPaddedPrefix ==
    (pc = "running" /\ Len(WIFI_SSID) # SSID_LEN) =>
        SubSeq(softap_config.ssid, 1, softap_config.ssid_len)
            = SubSeq(WIFI_SSID \o Zeros(SSID_SIZE), 1, SSID_LEN)

\* C11 amended: when the string is longer than ssid_len, the broadcast SSID
\* is its first ssid_len bytes; when it is shorter, the broadcast SSID is the
\* string and its terminating NUL followed by the bytes that lie behind the
\* string literal in memory, which the string does not determine; in both
\* cases every byte of the buffer behind the first ssid_len bytes is zero.
C11_MismatchedLength ==
    (pc = "running" /\ Len(WIFI_SSID) # SSID_LEN) =>
        /\ softap_config.ssid_len = SSID_LEN
        /\ \A i \in (SSID_LEN + 1)..SSID_SIZE : softap_config.ssid[i] = 0
        /\ Len(WIFI_SSID) > SSID_LEN =>
             SubSeq(softap_config.ssid, 1, SSID_LEN) = SubSeq(WIFI_SSID, 1, SSID_LEN)
        /\ Len(WIFI_SSID) < SSID_LEN =>
             /\ SubSeq(softap_config.ssid, 1, Len(WIFI_SSID)) = WIFI_SSID
             /\ softap_config.ssid[Len(WIFI_SSID) + 1] = 0
             /\ \E tail \in RodataTails :
                  SubSeq(softap_config.ssid, 1, SSID_LEN)
                      = SubSeq(CString(WIFI_SSID, tail), 1, SSID_LEN)

\* a string shorter than ssid_len has been committed, and the broadcast SSID
\* carries bytes from behind the string literal
C11_Witness ==
    /\ pc = "running"
    /\ Len(WIFI_SSID) < SSID_LEN
    /\ \E i \in (Len(WIFI_SSID) + 2)..SSID_LEN : softap_config.ssid[i] # 0

\* C12: handling a STATION_CONNECTED event leaves the timer armed with
\* interval 1000 ms, repeating, callback timer_function, from Idle and from
\* Armed; the leading disarm changes nothing when the timer was not armed;
\* whenever the timer is armed it has exactly these parameters, and before
\* the first connect event it is not armed.
C12_StartParameters ==
    /\ Connects # {} => Armed
    /\ Connects = {} => ~Armed
    /\ Armed =>
         /\ Len(timer_list) = 1
         /\ the_timer = [timer_func |-> "timer_function",
                         timer_period |-> TIMER_MS, repeat |-> TRUE]
    /\ \A j \in Disarms : ~trace[j].armed => ~trace[j + 1].armed
    /\ \A j \in Arms : j - 3 \in Connects

\* the timer has been started from Idle and started again from Armed
C12_Witness ==
    /\ Armed
    /\ Idle
    /\ \E i, j \in Disarms : ~trace[i].armed /\ trace[j].armed
\* C14: each credential buffer is zeroed before the copy: whatever soft-AP
\* configuration the stack held before, after init_done_callback every byte
\* of config.ssid behind the copied SSID bytes and every byte of
\* config.password behind the copied password bytes is zero, and both
\* buffers are what the copy into an all-zero buffer gives.
C14_BuffersCleared ==
    pc = "running" =>
        /\ \A i \in (SSID_LEN + 1)..SSID_SIZE : softap_config.ssid[i] = 0
        /\ \A i \in (PASSWORD_LEN + 1)..PASSWORD_SIZE : softap_config.password[i] = 0
        /\ \E stail \in RodataTails :
             softap_config.ssid
                 = os_memcpy(Zeros(SSID_SIZE), CString(WIFI_SSID, stail), SSID_LEN)
        /\ \E ptail \in RodataTails :
             softap_config.password
                 = os_memcpy(Zeros(PASSWORD_SIZE), CString(WIFI_PASSWORD, ptail),
                             PASSWORD_LEN)

\* the credentials have been committed over a previous configuration whose
\* buffers were full of other bytes
C14_Witness ==
    /\ pc = "running"
    /\ softap_config.channel = 6
    /\ softap_config.authmode = "AUTH_WPA2_PSK"
    /\ Len(WIFI_PASSWORD) = PASSWORD_LEN

\* the history holds exactly one wifi_softap_set_config, made before the one
\* wifi_set_event_handler_cb
ConfigThenHandler ==
    \E i, j \in Idx :
        /\ i < j
        /\ trace[i].op = "wifi_softap_set_config"
        /\ trace[j].op = "wifi_set_event_handler_cb"
        /\ \A k \in Idx : trace[k].op = "wifi_softap_set_config" => k = i
        /\ \A k \in Idx : trace[k].op = "wifi_set_event_handler_cb" => k = j

\* C15: the Init Gate commits the access-point configuration before it
\* registers the wifi event handler, it is committed exactly once, and no
\* later step (wifi event, tick, idle time) changes the committed
\* configuration.
C15_ConfigOnceBeforeHandler ==
    [][ /\ pc' = "running" => ConfigThenHandler'
        /\ pc = "running" => softap_config' = softap_config ]_vars

\* wifi events have been handled and a tick has completed after the commit
C15_Witness ==
    /\ pc = "running"
    /\ Connects # {}
    /\ OtherEvents # {}
    /\ Ticks # {}
    /\ Idle
\* C16: handling a STATION_CONNECTED event never changes the GPIO output: a
\* re-arm keeps the LED at the level the last tick left it, so the level
\* after a reconnect is the parity of the ticks since boot.
C16_ConnectKeepsLevel ==
    [][ ( /\ Len(trace') > Len(trace)
          /\ trace'[Len(trace) + 1].op = "wifi_event_handler_callback"
          /\ trace'[Len(trace) + 1].arg = EVENT_SOFTAPMODE_STACONNECTED )
        => /\ UNCHANGED << gpio_out, gpio_enable >>
           /\ Level' = NTicks' % 2 ]_vars

\* a connect event has been handled while the timer was armed and the LED
\* was on, and the LED is still on
C16_Witness ==
    /\ Idle
    /\ Level = 1
    /\ \E c \in Connects : trace[c].armed /\ trace[c].level = 1 /\ c = Len(trace) - 3

\* C17: GPIO2 is LOW in every state from the end of user_init until the
\* first tick writes it, whatever the init gate and the wifi event handler
\* do in between, and the first tick sets it HIGH.
C17_LowUntilFirstTick ==
    /\ (pc # "reset" /\ NTicks = 0) => Level = 0
    /\ (NTicks = 1 /\ running = "timer_function") => Level = 0
    /\ \A j \in Ticks : (\A i \in Ticks : j <= i) => trace[j].level = 0
    /\ (NTicks = 1 /\ Idle) => Level = 1

\* the first tick has completed; GPIO2 was HIGH at reset and wifi events
\* other than the connect were handled before the tick
C17_Witness ==
    /\ NTicks = 1
    /\ Idle
    /\ trace[1].level = 1
    /\ \E o \in OtherEvents : \E k \in Ticks : o < k

\* C18: a tick changes output bit 2 and nothing else: from its entry to its
\* return timer_function flips bit 2 once, keeps every other output bit and
\* the output enables, and keeps the timer handle; the timer stays armed
\* with the same interval, repeat flag and callback.
C18_TickFrame ==
    [][ /\ (running = "none" /\ running' = "timer_function") =>
             /\ UNCHANGED << gpio_out, gpio_enable, the_timer >>
             /\ Armed'
             /\ Len(timer_list') = Len(timer_list)
        /\ (running = "timer_function" /\ running' = "none") =>
             /\ \A b \in 0..(RegWidth - 1) :
                  Bit(gpio_out', b) = IF b = 2 THEN 1 - Bit(gpio_out, 2)
                                              ELSE Bit(gpio_out, b)
             /\ gpio_out' < 2 ^ RegWidth
             /\ UNCHANGED << gpio_enable, the_timer, timer_list >>
             /\ Armed' ]_vars

\* two ticks have completed while other output bits were set
C18_Witness ==
    /\ Idle
    /\ NTicks >= 2
    /\ Bit(gpio_out, 0) = 1
    /\ Bit(gpio_out, 1) = 1

\* C19: a STATION_CONNECTED event restarts the period: no tick fires less
\* than 1000 ms after a connect event, whatever time had already elapsed
\* toward the pending tick, and the timer is due exactly 1000 ms after the
\* most recent connect event until the next tick is served; that tick is
\* late by no more than the delays of the callbacks handled meanwhile.
C19_PeriodRestarts ==
    /\ \A c \in Connects : \A j \in Ticks :
         c < j => trace[j].t - trace[c].t >= Period
    /\ \A c \in Connects :
         (\A k \in Connects \cup Ticks : k <= c) =>
             timer_list = << trace[c].t + Period >>
    /\ \A c \in Connects : \A j \in Ticks :
         (c < j /\ \A k \in Connects \cup Ticks : ~(c < k /\ k < j)) =>
             trace[j].t - trace[c].t
                 <= Period + DELAY_US * Cardinality({h \in Handled : c <= h /\ h < j})

\* a connect event was handled while the timer was armed and part of the
\* period had elapsed, and a tick has followed it
C19_Witness ==
    \E c \in Connects : \E a \in Arms : \E j \in Ticks :
        /\ a < c
        /\ c < j
        /\ trace[c].armed
        /\ trace[c].t - trace[a].t > DELAY_US
        /\ trace[c].t - trace[a].t < Period
        /\ trace[j].t - trace[a].t < 2 * Period
\* a STATION_CONNECTED event has been handled: timer_function is bound
Started == the_timer.timer_func = "timer_function"
\* timer_function has been entered
InTick == running = "timer_function"
\* from some point on no further connect event is handled
ConnectsCease == <>[][~LiveConnect]_vars

\* C13 as stated: once a STATION_CONNECTED event has been handled, the tick
\* callback is invoked again and again forever, under fairness of the
\* platform timer, for every sequence of later wifi events, repeated connect
\* events included.
C13_TicksForever == Started ~> InTick

\* C13 amended: once a STATION_CONNECTED event has been handled, the tick
\* callback is invoked again and again forever, under fairness of the
\* platform timer, provided the connect events cease at some point; other
\* wifi events may go on forever.
C13_TicksForeverOnceConnectsCease == ConnectsCease => (Started ~> InTick)

\* a tick is entered for the second time or later, the LED being on
C13_Witness ==
    /\ InTick
    /\ Started
    /\ Level = 1
====
